---------------------------- MODULE Spec2Model ----------------------------
(***************************************************************************)
(* A model of the portfolio page script (src/script.js): the project       *)
(* loader, the date parser, the filter/render cycle, the lazy-load trigger *)
(* and the modal controller, as one state machine whose actions are the    *)
(* browser events the script handles.                                      *)
(*                                                                         *)
(* JavaScript strings are sequences of one-character strings, so that the  *)
(* regular expressions and substring tests of the script are computed on   *)
(* the characters.  Other JavaScript values are records tagged by field t. *)
(***************************************************************************)
EXTENDS Integers, Sequences, FiniteSets, TLC

(***************************************************************************)
(* Bounds of the model.                                                    *)
(***************************************************************************)
\* longest "projects" array of a fetched document
MaxProjects == 2
\* most timers pending at once (setTimeout calls not yet fired)
MaxTimers == 2
\* furthest scroll position, in layout units
MaxScroll == 3

(***************************************************************************)
(* Characters and strings.                                                 *)
(***************************************************************************)
UpperLetters ==
  <<"A","B","C","D","E","F","G","H","I","J","K","L","M",
    "N","O","P","Q","R","S","T","U","V","W","X","Y","Z">>

LowerLetters ==
  <<"a","b","c","d","e","f","g","h","i","j","k","l","m",
    "n","o","p","q","r","s","t","u","v","w","x","y","z">>

DigitChars == <<"0","1","2","3","4","5","6","7","8","9">>

\* String.prototype.toLowerCase, one character
ToLowerChar(c) ==
  IF \E i \in 1..26 : UpperLetters[i] = c
    THEN LowerLetters[CHOOSE i \in 1..26 : UpperLetters[i] = c]
    ELSE c

\* String.prototype.toLowerCase
ToLowerCase(s) == SubSeq([i \in 1..Len(s) |-> ToLowerChar(s[i])], 1, Len(s))

\* the regular expression class \d
IsDigit(c) == \E i \in 1..10 : DigitChars[i] = c

\* the regular expression class \s (the white space the inputs use)
IsSpace(c) == c \in {" ", "\t"}

DigitValue(c) == (CHOOSE i \in 1..10 : DigitChars[i] = c) - 1

\* parseInt(ds, 10) of a string of decimal digits
RECURSIVE ParseInt(_)
ParseInt(ds) ==
  IF Len(ds) = 0 THEN 0
  ELSE 10 * ParseInt(SubSeq(ds, 1, Len(ds) - 1)) + DigitValue(ds[Len(ds)])

\* s has p as a substring starting at position i
IsPrefixAt(s, i, p) ==
  /\ i >= 1
  /\ i + Len(p) - 1 <= Len(s)
  /\ \A k \in 1..Len(p) : s[i + k - 1] = p[k]

\* String.prototype.includes
Includes(s, p) == \E i \in 1..(Len(s) + 1) : IsPrefixAt(s, i, p)

\* \d{4} at position i
FourDigitsAt(s, i) ==
  /\ i >= 1
  /\ i + 3 <= Len(s)
  /\ \A k \in 0..3 : IsDigit(s[i + k])

\* the position after the longest run of \s starting at position i
RECURSIVE SkipSpace(_, _)
SkipSpace(s, i) ==
  IF i <= Len(s) /\ IsSpace(s[i]) THEN SkipSpace(s, i + 1) ELSE i

(***************************************************************************)
(* parseYearMonth (src/script.js 714-766).                                 *)
(***************************************************************************)
\* the alternatives of the month-name group, in the order the regular
\* expression lists them
MonthAlternatives ==
  << <<"j","a","n","u","a","r","y">>,
     <<"f","e","b","r","u","a","r","y">>,
     <<"m","a","r","c","h">>,
     <<"a","p","r","i","l">>,
     <<"m","a","y">>,
     <<"j","u","n","e">>,
     <<"j","u","l","y">>,
     <<"a","u","g","u","s","t">>,
     <<"s","e","p","t","e","m","b","e","r">>,
     <<"o","c","t","o","b","e","r">>,
     <<"n","o","v","e","m","b","e","r">>,
     <<"d","e","c","e","m","b","e","r">>,
     <<"j","a","n">>, <<"f","e","b">>, <<"m","a","r">>, <<"a","p","r">>,
     <<"m","a","y">>, <<"j","u","n">>, <<"j","u","l">>, <<"a","u","g">>,
     <<"s","e","p">>, <<"o","c","t">>, <<"n","o","v">>, <<"d","e","c">> >>

\* the monthNames table with the numbers of 'jun' and 'jul' exchanged
MonthNumbersSwapped ==
  <<1, 2, 3, 4, 5, 6, 7, 8, 9, 10, 11, 12,
    1, 2, 3, 4, 5, 7, 6, 8, 9, 10, 11, 12>>

\* the monthNames table: the month number of each alternative
MonthNumbers ==
  <<1, 2, 3, 4, 5, 6, 7, 8, 9, 10, 11, 12,
    1, 2, 3, 4, 5, 6, 7, 8, 9, 10, 11, 12>>

\* (name)\s+(\d{4}) with alternative a, the name starting at position i
MonthYearAt(s, i, a) ==
  LET name == MonthAlternatives[a]
      j    == i + Len(name)
      k    == SkipSpace(s, j)
  IN  /\ IsPrefixAt(s, i, name)
      /\ k > j
      /\ FourDigitsAt(s, k)

\* dateStr.match(/(january|...|dec)\s+(\d{4})/i): the leftmost match, and at
\* that position the first alternative that matches
MonthYearMatch(s) ==
  LET hits == {i \in 1..Len(s) : \E a \in 1..24 : MonthYearAt(s, i, a)}
  IN  IF hits = {} THEN [found |-> FALSE]
      ELSE LET i == CHOOSE x \in hits : \A y \in hits : x <= y
               a == CHOOSE x \in 1..24 :
                      /\ MonthYearAt(s, i, x)
                      /\ \A y \in 1..24 : MonthYearAt(s, i, y) => x <= y
               k == SkipSpace(s, i + Len(MonthAlternatives[a]))
           IN  [found |-> TRUE, alt |-> a, g2 |-> SubSeq(s, k, k + 3)]

\* (\d{4})[-/](\d{1,2}) starting at position i
DashAt(s, i) ==
  /\ FourDigitsAt(s, i)
  /\ i + 5 <= Len(s)
  /\ s[i + 4] \in {"-", "/"}
  /\ IsDigit(s[i + 5])

\* dateStr.match(/(\d{4})[-/](\d{1,2})/): the leftmost match, the month
\* group taking two digits when it can
DashMatch(s) ==
  LET hits == {i \in 1..Len(s) : DashAt(s, i)}
  IN  IF hits = {} THEN [found |-> FALSE]
      ELSE LET i == CHOOSE x \in hits : \A y \in hits : x <= y
               e == IF i + 6 <= Len(s) /\ IsDigit(s[i + 6]) THEN i + 6 ELSE i + 5
           IN  [found |-> TRUE, g1 |-> SubSeq(s, i, i + 3),
                g2 |-> SubSeq(s, i + 5, e)]

\* dateStr.match(/(\d{4})/): the leftmost four digits
YearMatch(s) ==
  LET hits == {i \in 1..Len(s) : FourDigitsAt(s, i)}
  IN  IF hits = {} THEN [found |-> FALSE]
      ELSE LET i == CHOOSE x \in hits : \A y \in hits : x <= y
           IN  [found |-> TRUE, g1 |-> SubSeq(s, i, i + 3)]

(***************************************************************************)
(* JavaScript values: [t |-> "undefined"], [t |-> "null"],                 *)
(* [t |-> "string", s |-> characters], [t |-> "number", n |-> integer],    *)
(* [t |-> "array", items |-> sequence], and [t |-> "atom", a |-> name] for  *)
(* a non-empty string the script only compares with ===.                   *)
(***************************************************************************)
Undefined == [t |-> "undefined"]

Str(chars) == [t |-> "string", s |-> chars]

Num(n) == [t |-> "number", n |-> n]

Arr(items) == [t |-> "array", items |-> items]

Atom(a) == [t |-> "atom", a |-> a]

\* the truthiness the script's ||, && and ! test
Truthy(v) ==
  CASE v.t = "undefined" -> FALSE
    [] v.t = "null"      -> FALSE
    [] v.t = "string"    -> Len(v.s) > 0
    [] v.t = "number"    -> v.n # 0
    [] OTHER             -> TRUE

\* a || d
OrDefault(v, d) == IF Truthy(v) THEN v ELSE d

UnknownDate == <<"U","n","k","n","o","w","n"," ","D","a","t","e">>

\* the exception a call of a method the value does not have raises
TypeError == [threw |-> TRUE]

\* the sort key record of a date that was recognised, or not
SortDate(year, month, sortKey) ==
  [threw |-> FALSE, year |-> year, month |-> month, sortKey |-> sortKey]

\* parseYearMonth trying the year-month format before the month name
parseYearMonthDashFirst(dateString) ==
  IF ~Truthy(dateString) \/ dateString = Str(UnknownDate)
    THEN SortDate(2000, 1, 0)
  ELSE IF dateString.t # "string"
    THEN TypeError
  ELSE
    LET dateStr        == ToLowerCase(dateString.s)
        monthYearMatch == MonthYearMatch(dateStr)
        dashMatch      == DashMatch(dateStr)
        yearMatch      == YearMatch(dateStr)
    IN  IF dashMatch.found
          THEN LET year  == ParseInt(dashMatch.g1)
                   month == ParseInt(dashMatch.g2)
               IN  SortDate(year, month, year * 100 + month)
        ELSE IF monthYearMatch.found
          THEN LET month == MonthNumbers[monthYearMatch.alt]
                   year  == ParseInt(monthYearMatch.g2)
               IN  SortDate(year, month, year * 100 + month)
        ELSE IF yearMatch.found
          THEN LET year == ParseInt(yearMatch.g1)
               IN  SortDate(year, 1, year * 100)
        ELSE SortDate(2000, 1, 0)

parseYearMonth(dateString) ==
  IF ~Truthy(dateString) \/ dateString = Str(UnknownDate)
    THEN SortDate(2000, 1, 0)
  ELSE IF dateString.t # "string"
    THEN TypeError          \* dateString.toLowerCase is not a function
  ELSE
    LET dateStr        == ToLowerCase(dateString.s)
        monthYearMatch == MonthYearMatch(dateStr)
        dashMatch      == DashMatch(dateStr)
        yearMatch      == YearMatch(dateStr)
    IN  IF monthYearMatch.found
          THEN LET month == MonthNumbers[monthYearMatch.alt]
                   year  == ParseInt(monthYearMatch.g2)
               IN  SortDate(year, month, year * 100 + month)
        ELSE IF dashMatch.found
          THEN LET year  == ParseInt(dashMatch.g1)
                   month == ParseInt(dashMatch.g2)
               IN  SortDate(year, month, year * 100 + month)
        ELSE IF yearMatch.found
          THEN LET year == ParseInt(yearMatch.g1)
               IN  SortDate(year, 1, year * 100)
        ELSE SortDate(2000, 1, 0)


(***************************************************************************)
(* The documents the fetch may deliver.                                    *)
(***************************************************************************)
DriveHost == <<"d","r","i","v","e",".","g","o","o","g","l","e",".","c","o","m">>

DriveFileD == DriveHost \o <<"/","f","i","l","e","/","d","/">>

\* thumbnail URLs: two plain images, a Drive video preview, an image served
\* from a Drive file path, and an embed page that is neither
UrlImageA == <<"a",".","j","p","g">>

UrlImageB == <<"b",".","P","N","G","?","v">>

UrlDriveVideo == DriveFileD \o <<"v">>

UrlDriveImage == DriveFileD \o <<"p",".","p","n","g">>

UrlEmbed == <<"x",".","c","o","/","e">>

MediaItem(type, thumbnail, embed) ==
  [type |-> type, thumbnail |-> thumbnail, embed |-> embed]

RawEntry(category, type, date, media) ==
  [category |-> category, type |-> type, date |-> date, media |-> media]

DateAugust2024 == <<"A","u","g","u","s","t"," ","2","0","2","4">>

Date2024 == <<"2","0","2","4">>

Date2024Jan == <<"2","0","2","4","-","0","1">>

Date1999 == <<"1","9","9","9">>

\* the entries a "projects" array is drawn from: well-formed entries in
\* each date format, entries with fields missing, and entries with a field
\* of the wrong type
Catalog ==
  << RawEntry(Atom("graphic"), Atom("Poster"), Str(DateAugust2024),
             Arr(<<MediaItem("image", Str(UrlImageA), TRUE),
                   MediaItem("image", Str(UrlImageB), TRUE)>>)),
    RawEntry(Atom("video"), Atom("Reel"), Str(Date2024),
             Arr(<<MediaItem("video", Str(UrlDriveVideo), TRUE)>>)),
    RawEntry(Atom("graphic"), Atom("Reel"), Undefined, Undefined),
    RawEntry(Undefined, Undefined, Str(Date1999),
             Arr(<<MediaItem("image", Str(UrlDriveImage), FALSE)>>)),
    RawEntry(Atom("video"), Atom("Poster"), Str(Date2024Jan),
             Arr(<<MediaItem("video", Str(UrlEmbed), TRUE)>>)),
    RawEntry(Atom("graphic"), Atom("Poster"), Num(2024), Arr(<<>>)),
    RawEntry(Atom("video"), Atom("Reel"), Str(UnknownDate), Str(UrlEmbed)) >>

Reverse(seq) == [i \in 1..Len(seq) |-> seq[Len(seq) + 1 - i]]

\* the "projects" arrays: up to MaxProjects neighbouring entries of the
\* catalog, in its order or in the reverse order
ProjectArrays ==
  LET windows == UNION {{SubSeq(Catalog, i, i + n - 1) :
                           i \in 1..(Len(Catalog) - n + 1)} : n \in 0..MaxProjects}
  IN  windows \cup {SubSeq(Reverse(w), 1, Len(w)) : w \in windows}

\* the values of data.projects: absent, not an array, or an array of entries
ProjectsValues ==
  {Undefined, Atom("none")}
    \cup {Arr(es) : es \in ProjectArrays}

\* what response.json() resolves to: the document null, or an object
Documents ==
  {[t |-> "null"]} \cup {[t |-> "object", projects |-> v] : v \in ProjectsValues}

\* the data-filter values of the category buttons and the data-type values
\* of the type buttons of the page
FilterButtons == {"all", "graphic", "video"}

TypeButtons == {"all", "Poster", "Reel"}

(***************************************************************************)
(* loadProjects: the field defaults, the sort and the thumbnail cache.     *)
(***************************************************************************)
\* the name of a category or type value once defaulted
AtomOr(v, d) == IF Truthy(v) THEN v.a ELSE d

\* the callback of data.projects.map (src/script.js 47-59)
ProcessProject(project, index) ==
  [id       |-> index + 1,
   category |-> AtomOr(project.category, "uncategorized"),
   type     |-> AtomOr(project.type, "Other"),
   date     |-> OrDefault(project.date, Str(UnknownDate)),
   sortDate |-> parseYearMonth(project.date),
   media    |-> OrDefault(project.media, Arr(<<>>))]

\* data.projects.map(...): the exception of the first callback that throws,
\* or the list of processed projects
MapResult(mapped) ==
  IF \E i \in 1..Len(mapped) : mapped[i].sortDate.threw
    THEN [threw |-> TRUE, list |-> <<>>]
    ELSE [threw |-> FALSE, list |-> mapped]

MapProjects(entries) ==
  MapResult(SubSeq([i \in 1..Len(entries) |-> ProcessProject(entries[i], i - 1)],
                   1, Len(entries)))

\* the comparator of projects.sort (src/script.js 62-67)
CompareByDate(a, b) ==
  IF b.sortDate.year # a.sortDate.year
    THEN b.sortDate.year - a.sortDate.year
    ELSE b.sortDate.month - a.sortDate.month

\* x put after the elements that do not compare after it
InsertSorted(sorted, x) ==
  LET k == Cardinality({i \in 1..Len(sorted) : CompareByDate(sorted[i], x) <= 0})
  IN  SubSeq(sorted, 1, k) \o <<x>> \o SubSeq(sorted, k + 1, Len(sorted))

\* Array.prototype.sort with the comparator: a stable sort
RECURSIVE SortProjects(_)
SortProjects(list) ==
  IF Len(list) = 0 THEN <<>>
  ELSE InsertSorted(SortProjects(SubSeq(list, 1, Len(list) - 1)), list[Len(list)])

\* the extensions of /\.(jpg|jpeg|png|gif|webp)(\?.*)?$/i
ImageExtensions ==
  { <<"j","p","g">>, <<"j","p","e","g">>, <<"p","n","g">>, <<"g","i","f">>,
    <<"w","e","b","p">> }

\* url.match(/\.(jpg|jpeg|png|gif|webp)(\?.*)?$/i)
IsImageUrl(url) ==
  LET low == ToLowerCase(url)
  IN  \E i \in 1..Len(low) : \E ext \in ImageExtensions :
        /\ low[i] = "."
        /\ IsPrefixAt(low, i + 1, ext)
        /\ \/ i + Len(ext) = Len(low)
           \/ low[i + Len(ext) + 1] = "?"

\* project.media && project.media.length > 0
HasMedia(project) ==
  /\ Truthy(project.media)
  /\ \/ project.media.t = "array" /\ Len(project.media.items) > 0
     \/ project.media.t = "string" /\ Len(project.media.s) > 0

\* project.media.length, for the media the model's entries carry
MediaLength(project) ==
  CASE project.media.t = "array"  -> Len(project.media.items)
    [] project.media.t = "string" -> Len(project.media.s)

\* the body of the inner forEach of preCacheThumbnails, on one media item
CacheThumbnail(acc, media) ==
  IF acc.threw \/ ~Truthy(media.thumbnail) THEN acc
  ELSE IF media.thumbnail.t # "string"
    THEN [acc EXCEPT !.threw = TRUE]     \* thumbnail.includes is not a function
  ELSE IF ~Includes(media.thumbnail.s, DriveFileD) /\ IsImageUrl(media.thumbnail.s)
    THEN [acc EXCEPT !.cache = @ \cup {media.thumbnail.s}]
  ELSE acc

RECURSIVE CacheMediaList(_, _)
CacheMediaList(acc, items) ==
  IF Len(items) = 0 THEN acc
  ELSE CacheMediaList(CacheThumbnail(acc, Head(items)), Tail(items))

\* the body of the outer forEach of preCacheThumbnails, on one project
CacheProject(acc, project) ==
  IF acc.threw \/ ~HasMedia(project) THEN acc
  ELSE IF project.media.t # "array"
    THEN [acc EXCEPT !.threw = TRUE]     \* media.forEach is not a function
  ELSE CacheMediaList(acc, project.media.items)

RECURSIVE CacheProjectList(_, _)
CacheProjectList(acc, list) ==
  IF Len(list) = 0 THEN acc
  ELSE CacheProjectList(CacheProject(acc, Head(list)), Tail(list))

\* preCacheThumbnails: the cache as the loop leaves it, and whether it threw
preCacheThumbnails(list, cache) ==
  CacheProjectList([threw |-> FALSE, cache |-> cache], list)

\* calculateCategoryCounts, on the keys the category buttons read
calculateCategoryCounts(list) ==
  [c \in FilterButtons |->
     IF c = "all" THEN Len(list)
     ELSE Cardinality({i \in 1..Len(list) : list[i].category = c})]

\* filterProjects without its tests for 'all'
FilterListNoAll(list, category, type) ==
  SelectSeq(list, LAMBDA p : p.category = category /\ p.type = type)

\* the list filterProjects computes (src/script.js 392-400)
FilterList(list, category, type) ==
  LET byCategory == IF category # "all"
                      THEN SelectSeq(list, LAMBDA p : p.category = category)
                      ELSE list
  IN  IF type # "all"
        THEN SelectSeq(byCategory, LAMBDA p : p.type = type)
        ELSE byCategory

(***************************************************************************)
(* The state of the page.                                                  *)
(***************************************************************************)
VARIABLES
  pc,                 \* where loadProjects is: "fetching", "parsing", "done", "failed"
  fetches,            \* the fetch calls made since the page was loaded
  data,               \* loadProjects' data, once response.json() resolved
  projects, filteredProjects, currentCategory, currentType,
  currentProject, currentMediaIndex, categoryCounts, imageCache,
  projectsContainer,  \* #projectsContainer: what it shows, its cards, its button
  typeFilterNav,      \* #typeFilterNav: its display
  scrollListener,     \* lazyLoadHandler is registered for 'scroll'
  scrollY,            \* the scroll position of the window
  modalDisplay,       \* #projectModal: its style.display
  modalActive,        \* #projectModal has the class 'active'
  bodyOverflow,       \* document.body.style.overflow
  timers,             \* the setTimeout callbacks pending, oldest first
  mediaPrevDisabled, mediaNextDisabled,
  mediaContainer,     \* #mediaContainer: what it shows
  parseInput, parseResult   \* an argument of parseYearMonth and its result

vars ==
  <<pc, fetches, data, projects, filteredProjects, currentCategory, currentType,
    currentProject, currentMediaIndex, categoryCounts, imageCache,
    projectsContainer, typeFilterNav, scrollListener, scrollY, modalDisplay,
    modalActive, bodyOverflow, timers, mediaPrevDisabled, mediaNextDisabled,
    mediaContainer, parseInput, parseResult>>

loaderVars == <<pc, fetches, data, projects, categoryCounts, imageCache>>

filterVars == <<currentCategory, currentType>>

modalVars ==
  <<currentProject, currentMediaIndex, modalDisplay, modalActive, bodyOverflow,
    timers, mediaPrevDisabled, mediaNextDisabled, mediaContainer>>

parseVars == <<parseInput, parseResult>>

\* currentProject = null
Null == [null |-> TRUE]

(***************************************************************************)
(* Layout: the cards stand in one column, each thumbnail two units high    *)
(* and three units below the one before; the window is three units high.   *)
(***************************************************************************)
\* element.getBoundingClientRect() of the thumbnail of the card at index
BoundingClientRect(index, scroll) ==
  [top    |-> 3 * index - scroll,
   bottom |-> 3 * index - scroll + 2,
   left   |-> 0,
   right  |-> 2]

Window == [innerHeight |-> 3, innerWidth |-> 3]

\* isInViewport (src/script.js 280-288), on the rectangle of the element
isInViewport(rect) ==
  /\ rect.top >= 0
  /\ rect.left >= 0
  /\ rect.bottom <= Window.innerHeight
  /\ rect.right <= Window.innerWidth

(***************************************************************************)
(* Rendering the cards.                                                    *)
(***************************************************************************)
\* an element of a thumbnail: its kind (a class or tag), whether it carries
\* data-src, and how the load of its src went: "none" (no src), "pending",
\* "loaded", "failed"
Element(kind, dataSrc, net) == [kind |-> kind, dataSrc |-> dataSrc, net |-> net]

\* project.media[i], for an array and for a string
MediaAt(project, i) ==
  IF project.media.t = "array" THEN project.media.items[i + 1]
  ELSE MediaItem("undefined", Undefined, FALSE)

createThumbnailContent(thumbnailUrl, isVideo, cache) ==
  IF isVideo /\ Includes(thumbnailUrl, DriveHost)
    THEN Element("thumbnail-placeholder", TRUE, "none")
  ELSE IF IsImageUrl(thumbnailUrl)
    THEN IF thumbnailUrl \in cache
           THEN Element("img", FALSE, "pending")
           ELSE Element("lazy-image", TRUE, "none")
  ELSE Element("iframe-placeholder", TRUE, "none")

\* createProjectElement: the card, its thumbnail container with the class
\* 'loading', and either the thumbnail element or the .thumbnail-fallback
createProjectElement(project, index, cache) ==
  IF project.category = "diary"
    THEN [project |-> project, index |-> index, diary |-> TRUE,
          el |-> Element("none", FALSE, "none"), loading |-> FALSE,
          fallback |-> "absent"]
  ELSE
    LET hasMedia   == HasMedia(project)
        firstMedia == MediaAt(project, 0)
        isVideo    == hasMedia /\ firstMedia.type = "video"
        hasThumb   == hasMedia /\ Truthy(firstMedia.thumbnail)
    IN  [project  |-> project, index |-> index, diary |-> FALSE,
         el       |-> IF hasThumb
                        THEN createThumbnailContent(firstMedia.thumbnail.s,
                                                    isVideo, cache)
                        ELSE Element("thumbnail-fallback", FALSE, "none"),
         loading  |-> TRUE,
         fallback |-> IF hasThumb THEN "absent" ELSE "shown"]

\* loadImage (src/script.js 309-316)
loadImage(card) ==
  IF ~card.el.dataSrc THEN card
  ELSE [card EXCEPT !.el = Element("img", FALSE, "pending")]

\* loadIframe (src/script.js 319-345)
loadIframe(card) ==
  IF ~card.el.dataSrc THEN card
  ELSE [card EXCEPT !.el = Element("iframe", FALSE, "pending")]

IsLazyImage(card) == card.el.kind = "lazy-image"

IsPlaceholder(card) ==
  card.el.kind \in {"thumbnail-placeholder", "iframe-placeholder"}

\* the two forEach loops initLazyLoading and lazyLoadHandler share
LoadVisible(cards, scroll) ==
  SubSeq([i \in 1..Len(cards) |->
            IF ~isInViewport(BoundingClientRect(cards[i].index, scroll))
              THEN cards[i]
            ELSE IF IsLazyImage(cards[i]) THEN loadImage(cards[i])
            ELSE IF IsPlaceholder(cards[i]) THEN loadIframe(cards[i])
            ELSE cards[i]], 1, Len(cards))

\* initLazyLoading (src/script.js 254-277): the cards, and the listener
initLazyLoading(cards, scroll, listener) ==
  [cards    |-> LoadVisible(cards, scroll),
   listener |-> listener
                  \/ \E i \in 1..Len(cards) :
                       IsLazyImage(cards[i]) \/ IsPlaceholder(cards[i])]

\* a scroll handler that also returns to its placeholder every iframe that
\* has left the viewport
lazyLoadHandlerUnloading(cards, scroll) ==
  SubSeq([i \in 1..Len(cards) |->
            IF /\ cards[i].el.kind = "iframe"
               /\ ~isInViewport(BoundingClientRect(cards[i].index, scroll))
              THEN [cards[i] EXCEPT
                      !.el = Element("iframe-placeholder", TRUE, "none")]
              ELSE LoadVisible(cards, scroll)[i]], 1, Len(cards))

\* lazyLoadHandler (src/script.js 291-306)
lazyLoadHandler(cards, scroll) == LoadVisible(cards, scroll)

Container(kind, cards, button) ==
  [kind |-> kind, cards |-> cards, button |-> button]

\* showEmptyState (src/script.js 580-607)
showEmptyState(category, type) ==
  Container("empty", <<>>,
            IF category # "all" \/ type # "all" THEN "clear" ELSE "none")

\* showError without its reload button
showErrorWithoutReload == Container("error", <<>>, "none")

\* showError (src/script.js 610-626)
showError == Container("error", <<>>, "reload")

\* showLoading (src/script.js 570-577)
showLoading == Container("loading", <<>>, "none")

\* renderProjects (src/script.js 134-147): the container and the listener
renderProjects(filtered, category, type, cache, scroll, listener) ==
  IF Len(filtered) = 0
    THEN [container |-> showEmptyState(category, type), listener |-> listener]
  ELSE
    LET fresh == SubSeq([i \in 1..Len(filtered) |->
                           createProjectElement(filtered[i], i - 1, cache)],
                        1, Len(filtered))
        lazy  == initLazyLoading(fresh, scroll, listener)
    IN  [container |-> Container("cards", lazy.cards, "none"),
         listener  |-> lazy.listener]

(***************************************************************************)
(* The modal.                                                              *)
(***************************************************************************)
\* updateModal (src/script.js 442-495), for an open project: the two
\* navigation buttons and what the media container shows
updateModal(project, index) ==
  LET length       == MediaLength(project)
      hasCurrent   == index < length
      currentMedia == MediaAt(project, index)
  IN  [prev  |-> index = 0,
       next  |-> index = length - 1,
       media |-> IF hasCurrent /\ currentMedia.embed THEN "iframe" ELSE "no-media"]

\* the delay of a timer: setTimeout(..., 10) of openProjectModal and
\* setTimeout(..., 300) of closeModal
TimerDelay(timer) == IF timer = "activate" THEN 10 ELSE 300

\* the timer at position k may be the next to fire: no timer set before it
\* with a delay at most as long is still pending
MayFire(k) ==
  \A j \in 1..(k - 1) : TimerDelay(timers[j]) > TimerDelay(timers[k])

RemoveAt(seq, k) == SubSeq(seq, 1, k - 1) \o SubSeq(seq, k + 1, Len(seq))

\* openProjectModal (src/script.js 408-423)
openProjectModal(project) ==
  LET shown == updateModal(project, 0)
  IN  /\ currentProject' = project
      /\ currentMediaIndex' = 0
      /\ mediaPrevDisabled' = shown.prev
      /\ mediaNextDisabled' = shown.next
      /\ mediaContainer' = shown.media
      /\ modalDisplay' = "block"
      /\ timers' = Append(timers, "activate")
      /\ UNCHANGED <<modalActive, bodyOverflow>>

\* closeModal (src/script.js 555-567)
closeModal ==
  /\ modalActive' = FALSE
  /\ timers' = Append(timers, "hide")
  /\ currentProject' = Null
  /\ currentMediaIndex' = 0
  /\ UNCHANGED <<modalDisplay, bodyOverflow, mediaPrevDisabled,
                 mediaNextDisabled, mediaContainer>>

\* nextMedia without its test of the last index
NextIndexUnchecked(project, index) ==
  IF project # Null THEN index + 1 ELSE index

\* the index nextMedia leaves (src/script.js 540-545)
NextIndex(project, index) ==
  IF project # Null /\ index < MediaLength(project) - 1 THEN index + 1 ELSE index

\* the index prevMedia leaves (src/script.js 547-552)
PrevIndex(index) == IF index > 0 THEN index - 1 ELSE index

\* the rest of nextMedia and prevMedia: updateModal when the index moved
MoveTo(index) ==
  /\ currentMediaIndex' = index
  /\ IF index # currentMediaIndex /\ currentProject # Null
       THEN LET shown == updateModal(currentProject, index)
            IN  /\ mediaPrevDisabled' = shown.prev
                /\ mediaNextDisabled' = shown.next
                /\ mediaContainer' = shown.media
       ELSE UNCHANGED <<mediaPrevDisabled, mediaNextDisabled, mediaContainer>>
  /\ UNCHANGED <<currentProject, modalDisplay, modalActive, bodyOverflow, timers>>

nextMedia == MoveTo(NextIndex(currentProject, currentMediaIndex))

prevMedia == MoveTo(PrevIndex(currentMediaIndex))

pageVars ==
  <<loaderVars, filterVars, filteredProjects, projectsContainer, typeFilterNav,
    scrollListener, scrollY, parseVars>>

\* a click on a card that is not the diary card
CardClick(i) ==
  /\ projectsContainer.kind = "cards"
  /\ i \in 1..Len(projectsContainer.cards)
  /\ ~projectsContainer.cards[i].diary
  /\ Len(timers) < MaxTimers
  /\ openProjectModal(projectsContainer.cards[i].project)
  /\ UNCHANGED pageVars

\* a click on .modal-close or .modal-overlay, while the modal is displayed
CloseClick ==
  /\ modalDisplay = "block"
  /\ Len(timers) < MaxTimers
  /\ closeModal
  /\ UNCHANGED pageVars

\* a click on .media-next, which a disabled button does not deliver
NextClick ==
  /\ modalDisplay = "block"
  /\ ~mediaNextDisabled
  /\ nextMedia
  /\ UNCHANGED pageVars

\* a click on .media-prev, which a disabled button does not deliver
PrevClick ==
  /\ modalDisplay = "block"
  /\ ~mediaPrevDisabled
  /\ prevMedia
  /\ UNCHANGED pageVars

\* the keydown listener (src/script.js 676-684)
KeyDown(key) ==
  /\ key \in {"Escape", "ArrowRight", "ArrowLeft"}
  /\ IF ~modalActive THEN UNCHANGED modalVars
     ELSE IF key = "Escape" THEN Len(timers) < MaxTimers /\ closeModal
     ELSE IF key = "ArrowRight" THEN nextMedia
     ELSE prevMedia
  /\ UNCHANGED pageVars

\* a pending timer fires: the callback of openProjectModal's setTimeout, or
\* of closeModal's
TimerFires(k) ==
  /\ k \in 1..Len(timers)
  /\ MayFire(k)
  /\ timers' = RemoveAt(timers, k)
  /\ IF timers[k] = "activate"
       THEN /\ modalActive' = TRUE
            /\ bodyOverflow' = "hidden"
            /\ UNCHANGED modalDisplay
       ELSE /\ modalDisplay' = "none"
            /\ bodyOverflow' = "auto"
            /\ UNCHANGED modalActive
  /\ UNCHANGED <<currentProject, currentMediaIndex, mediaPrevDisabled,
                 mediaNextDisabled, mediaContainer>>
  /\ UNCHANGED pageVars

(***************************************************************************)
(* loadProjects (src/script.js 29-85), one action per resumption.          *)
(***************************************************************************)
\* the catch block: the error panel replaces what the container shows
CatchError ==
  /\ pc' = "failed"
  /\ projectsContainer' = showError

\* fetch() settles: "reject" (the promise rejects), "notOk" (a response
\* whose ok is false), "ok"
FetchSettled(outcome) ==
  /\ pc = "fetching"
  /\ outcome \in {"reject", "notOk", "ok"}
  /\ IF outcome = "ok"
       THEN pc' = "parsing" /\ UNCHANGED projectsContainer
       ELSE CatchError
  /\ UNCHANGED <<fetches, data, projects, categoryCounts, imageCache,
                 filterVars, filteredProjects, typeFilterNav, scrollListener,
                 scrollY, modalVars, parseVars>>

\* response.json() rejects: the body is not JSON
JsonRejected ==
  /\ pc = "parsing"
  /\ CatchError
  /\ UNCHANGED <<fetches, data, projects, categoryCounts, imageCache,
                 filterVars, filteredProjects, typeFilterNav, scrollListener,
                 scrollY, modalVars, parseVars>>

\* data.projects is an array
IsProjectsArray(doc) ==
  /\ doc.t = "object"
  /\ Truthy(doc.projects)
  /\ doc.projects.t = "array"

\* what the try block leaves when it ends or throws: whether projects was
\* assigned, the projects, the cache, and whether an exception was thrown
TryResult(assigned, list, cache, threw) ==
  [assigned |-> assigned, projects |-> list, cache |-> cache, threw |-> threw]

\* preCacheThumbnails() returned or threw (src/script.js 70)
AfterCache(sorted, cached) == TryResult(TRUE, sorted, cached.cache, cached.threw)

\* projects.sort(...) returned (src/script.js 62-67)
AfterSort(sorted, cache) == AfterCache(sorted, preCacheThumbnails(sorted, cache))

\* data.projects.map(...) returned or threw (src/script.js 47-59)
AfterMap(mapped, cache) ==
  IF mapped.threw THEN TryResult(FALSE, <<>>, cache, TRUE)
  ELSE AfterSort(SortProjects(mapped.list), cache)

\* the try block from the validation of data on (src/script.js 41-70)
TryLoad(doc, cache) ==
  IF ~IsProjectsArray(doc)
    THEN \* reading data.projects of null throws; the validation throws
         TryResult(FALSE, <<>>, cache, TRUE)
    ELSE AfterMap(MapProjects(doc.projects.items), cache)

\* renderProjects' effect on the page
Show(shown) ==
  /\ projectsContainer' = shown.container
  /\ scrollListener' = shown.listener

\* the end of loadProjects: the counts, the filtered list and the cards
\* (src/script.js 72-79), or the catch block (src/script.js 81-84)
FinishLoad(result) ==
  /\ projects' = IF result.assigned THEN result.projects ELSE projects
  /\ imageCache' = result.cache
  /\ IF result.threw
       THEN /\ CatchError
            /\ UNCHANGED <<categoryCounts, filteredProjects, scrollListener>>
       ELSE /\ categoryCounts' = calculateCategoryCounts(result.projects)
            /\ filteredProjects' = result.projects
            /\ Show(renderProjects(result.projects, currentCategory, currentType,
                                   result.cache, scrollY, scrollListener))
            /\ pc' = "done"

\* response.json() resolves to doc, and loadProjects runs to its end
JsonResolved(doc) ==
  /\ pc = "parsing"
  /\ doc \in Documents
  /\ data' = doc
  /\ FinishLoad(TryLoad(doc, imageCache))
  /\ UNCHANGED <<fetches, filterVars, typeFilterNav, scrollY, modalVars,
                 parseVars>>

(***************************************************************************)
(* The filters.                                                            *)
(***************************************************************************)
\* filterProjects (src/script.js 391-405) with the filters already set
FilterTo(filtered) ==
  /\ filteredProjects' = filtered
  /\ Show(renderProjects(filtered, currentCategory', currentType', imageCache,
                         scrollY, scrollListener))
  /\ typeFilterNav' = IF currentCategory' = "all" THEN "none" ELSE "block"

filterProjects == FilterTo(FilterList(projects, currentCategory', currentType'))

\* a click on a .filter-btn that also puts the type filter back to 'all'
CategoryClickResettingType(category) ==
  /\ category \in FilterButtons
  /\ currentCategory' = category
  /\ currentType' = "all"
  /\ filterProjects
  /\ UNCHANGED <<loaderVars, scrollY, modalVars, parseVars>>

\* a click on a .filter-btn
CategoryClick(category) ==
  /\ category \in FilterButtons
  /\ currentCategory' = category
  /\ UNCHANGED currentType
  /\ filterProjects
  /\ UNCHANGED <<loaderVars, scrollY, modalVars, parseVars>>

\* a click on a .type-filter-btn, which is inside #typeFilterNav
TypeClick(type) ==
  /\ type \in TypeButtons
  /\ typeFilterNav = "block"
  /\ currentType' = type
  /\ UNCHANGED currentCategory
  /\ filterProjects
  /\ UNCHANGED <<loaderVars, scrollY, modalVars, parseVars>>

\* clearFilters (src/script.js 629-643), from the button of the empty state
ClearFilters ==
  /\ projectsContainer.button = "clear"
  /\ currentCategory' = "all"
  /\ currentType' = "all"
  /\ filterProjects
  /\ UNCHANGED <<loaderVars, scrollY, modalVars, parseVars>>

(***************************************************************************)
(* Scrolling and the load events of the thumbnails.                        *)
(***************************************************************************)
\* the window scrolls to y; lazyLoadHandler runs if it is registered
Scroll(y) ==
  /\ y \in 0..MaxScroll
  /\ y # scrollY
  /\ scrollY' = y
  /\ projectsContainer' =
       IF scrollListener
         THEN [projectsContainer EXCEPT !.cards = lazyLoadHandler(@, y)]
         ELSE projectsContainer
  /\ UNCHANGED <<loaderVars, filterVars, filteredProjects, typeFilterNav,
                 scrollListener, modalVars, parseVars>>

\* handleThumbnailLoad and iframe.onload: the container loses 'loading'
ThumbnailLoaded(card) ==
  [card EXCEPT !.el.net = "loaded", !.loading = FALSE]

\* handleThumbnailError and iframe.onerror: the container loses 'loading',
\* and its .thumbnail-fallback, if it has one, is displayed
handleThumbnailError(card) ==
  [card EXCEPT !.loading = FALSE,
               !.fallback = IF @ # "absent" THEN "shown" ELSE @]

ThumbnailFailed(card) ==
  [handleThumbnailError(card) EXCEPT !.el.net = "failed"]

\* the src of the img or iframe of card i is being loaded
LoadPending(i) ==
  /\ projectsContainer.kind = "cards"
  /\ i \in 1..Len(projectsContainer.cards)
  /\ projectsContainer.cards[i].el.net = "pending"

\* the load event of the thumbnail of card i
ThumbnailLoad(i) ==
  /\ LoadPending(i)
  /\ projectsContainer' =
       [projectsContainer EXCEPT !.cards[i] = ThumbnailLoaded(@)]
  /\ UNCHANGED <<loaderVars, filterVars, filteredProjects, typeFilterNav,
                 scrollListener, scrollY, modalVars, parseVars>>

\* the error event of the thumbnail of card i
ThumbnailError(i) ==
  /\ LoadPending(i)
  /\ projectsContainer' =
       [projectsContainer EXCEPT !.cards[i] = ThumbnailFailed(@)]
  /\ UNCHANGED <<loaderVars, filterVars, filteredProjects, typeFilterNav,
                 scrollListener, scrollY, modalVars, parseVars>>

(***************************************************************************)
(* The page.                                                               *)
(***************************************************************************)
\* parseResult before parseYearMonth returned
NotParsed == [pending |-> TRUE]

\* the state init() leaves (src/script.js 3-26): the loading panel, the
\* fetch of loadProjects started, the listeners set up
PageLoaded ==
  /\ pc = "fetching"
  /\ fetches = 1
  /\ data = Undefined
  /\ projects = <<>>
  /\ filteredProjects = <<>>
  /\ currentCategory = "all"
  /\ currentType = "all"
  /\ currentProject = Null
  /\ currentMediaIndex = 0
  /\ categoryCounts = [c \in FilterButtons |-> 0]
  /\ imageCache = {}
  /\ projectsContainer = showLoading
  /\ typeFilterNav = "none"
  /\ scrollListener = FALSE
  /\ scrollY = 0
  /\ modalDisplay = "none"
  /\ modalActive = FALSE
  /\ bodyOverflow = "auto"
  /\ timers = <<>>
  /\ mediaPrevDisabled = FALSE
  /\ mediaNextDisabled = FALSE
  /\ mediaContainer = "empty"

Init ==
  /\ PageLoaded
  /\ parseInput = Undefined
  /\ parseResult = NotParsed

\* the reload button of the error panel: window.location.reload()
Reload ==
  /\ projectsContainer.button = "reload"
  /\ pc' = "fetching"
  /\ fetches' = 1
  /\ data' = Undefined
  /\ projects' = <<>>
  /\ filteredProjects' = <<>>
  /\ currentCategory' = "all"
  /\ currentType' = "all"
  /\ currentProject' = Null
  /\ currentMediaIndex' = 0
  /\ categoryCounts' = [c \in FilterButtons |-> 0]
  /\ imageCache' = {}
  /\ projectsContainer' = showLoading
  /\ typeFilterNav' = "none"
  /\ scrollListener' = FALSE
  /\ scrollY' = 0
  /\ modalDisplay' = "none"
  /\ modalActive' = FALSE
  /\ bodyOverflow' = "auto"
  /\ timers' = <<>>
  /\ mediaPrevDisabled' = FALSE
  /\ mediaNextDisabled' = FALSE
  /\ mediaContainer' = "empty"
  /\ UNCHANGED parseVars

\* the events of the loader, the filters, the modal and the reload button
PageEvent ==
  \/ \E outcome \in {"reject", "notOk", "ok"} : FetchSettled(outcome)
  \/ JsonRejected
  \/ \E doc \in Documents : JsonResolved(doc)
  \/ \E category \in FilterButtons : CategoryClick(category)
  \/ \E type \in TypeButtons : TypeClick(type)
  \/ ClearFilters
  \/ Reload

ModalEvent ==
  \/ \E i \in 1..MaxProjects : CardClick(i)
  \/ CloseClick
  \/ NextClick
  \/ PrevClick
  \/ \E key \in {"Escape", "ArrowRight", "ArrowLeft"} : KeyDown(key)
  \/ \E k \in 1..MaxTimers : TimerFires(k)

ThumbnailEvent ==
  \/ \E y \in 0..MaxScroll : Scroll(y)
  \/ \E i \in 1..MaxProjects : ThumbnailLoad(i)
  \/ \E i \in 1..MaxProjects : ThumbnailError(i)

(***************************************************************************)
(* The modal's variables and the thumbnails' elements are disjoint: no     *)
(* modal event reads or writes an element of a card, and no scroll or      *)
(* thumbnail event reads or writes a variable of the modal.  The page is   *)
(* therefore checked with the modal (Spec) and with the thumbnails         *)
(* (SpecLazy), each with every event of the loader and the filters.        *)
(***************************************************************************)
Next == PageEvent \/ ModalEvent

Spec == Init /\ [][Next]_vars

NextLazy == PageEvent \/ ThumbnailEvent

SpecLazy == Init /\ [][NextLazy]_vars

(***************************************************************************)
(* parseYearMonth on its own: an argument is chosen, the function applied. *)
(***************************************************************************)
UpperOf(c) ==
  IF \E i \in 1..26 : LowerLetters[i] = c
    THEN UpperLetters[CHOOSE i \in 1..26 : LowerLetters[i] = c]
    ELSE c

\* a name with its first letter a capital
Capitalized(s) == <<UpperOf(s[1])>> \o SubSeq(s, 2, Len(s))

\* a year written with four digits
Digits4(y) ==
  << DigitChars[((y \div 1000) % 10) + 1], DigitChars[((y \div 100) % 10) + 1],
     DigitChars[((y \div 10) % 10) + 1], DigitChars[(y % 10) + 1] >>

\* a month written with two digits, or with as few as it needs
MonthDigits(m, padded) ==
  IF m >= 10 \/ padded
    THEN <<DigitChars[(m \div 10) + 1], DigitChars[(m % 10) + 1]>>
    ELSE <<DigitChars[m + 1]>>

\* the name of month m: in full, or its three letters
MonthName(m, short) == MonthAlternatives[IF short THEN 12 + m ELSE m]

ParseYears == {1999, 2024}

\* "August 2024", "aug 2024"
MonthYearInput(m, short, capital, y) ==
  Str((IF capital THEN Capitalized(MonthName(m, short)) ELSE MonthName(m, short))
        \o <<" ">> \o Digits4(y))

\* "2024-08", "2024/8"
YearMonthInput(y, m, sep, padded) ==
  Str(Digits4(y) \o <<sep>> \o MonthDigits(m, padded))

\* "2024"
YearInput(y) == Str(Digits4(y))

\* dates in no format, in a format after other text, and in two formats
OtherInputs ==
  { Undefined, Str(<<>>), Str(UnknownDate), Num(2024),
    Str(<<"s","o","o","n">>),
    Str(<<"S","e","p","t"," ","2","0","2","4">>),
    Str(<<"M","a","y"," ","5",","," ","2","0","2","4">>),
    Str(<<"2","0","2","4","-","0","0">>),
    Str(<<"2","0","2","3","-","1","2"," ","t","o"," ","J","a","n"," ","2","0","2","4">>),
    Str(<<"1","9","9","9"," ","/"," ","2","0","2","4","-","0","8">>) }

ParseInputs ==
  {MonthYearInput(m, short, capital, y) :
     m \in 1..12, short \in BOOLEAN, capital \in BOOLEAN, y \in ParseYears}
    \cup {YearMonthInput(y, m, sep, padded) :
            y \in ParseYears, m \in 1..12, sep \in {"-", "/"}, padded \in BOOLEAN}
    \cup {YearInput(y) : y \in ParseYears}
    \cup OtherInputs

InitParse ==
  /\ PageLoaded
  /\ parseInput \in ParseInputs
  /\ parseResult = NotParsed

\* parseYearMonth(parseInput) returns, or throws
ParseStep ==
  /\ parseResult = NotParsed
  /\ parseResult' = parseYearMonth(parseInput)
  /\ UNCHANGED <<loaderVars, filterVars, filteredProjects, projectsContainer,
                 typeFilterNav, scrollListener, scrollY, modalVars, parseInput>>

NextParse == ParseStep

SpecParse == InitParse /\ [][NextParse]_vars

(***************************************************************************)
(* The properties.                                                         *)
(***************************************************************************)
Cards == projectsContainer.cards

\* a step that calls filterProjects
FilterStep ==
  \/ \E category \in FilterButtons : CategoryClick(category)
  \/ \E type \in TypeButtons : TypeClick(type)
  \/ ClearFilters

\* C1: in every state filteredProjects holds exactly the projects that pass
\* the current category and type filters, in the order of projects
C1_FilteredConsistent ==
  filteredProjects = FilterList(projects, currentCategory, currentType)

\* C2, as claimed: while a project is open the media index lies between 0
\* and the project's media.length - 1
C2_IndexInRange ==
  currentProject # Null =>
    /\ 0 <= currentMediaIndex
    /\ currentMediaIndex <= MediaLength(currentProject) - 1

\* C2, amended: while a project is open the media index is 0 when the
\* project has no media, and otherwise lies between 0 and media.length - 1
C2_IndexInRangeOrZero ==
  currentProject # Null =>
    IF MediaLength(currentProject) = 0
      THEN currentMediaIndex = 0
      ELSE /\ 0 <= currentMediaIndex
           /\ currentMediaIndex <= MediaLength(currentProject) - 1

\* a project without media is open and its modal has been activated
C2_Witness ==
  /\ currentProject # Null
  /\ MediaLength(currentProject) = 0
  /\ currentMediaIndex = 0
  /\ modalActive

\* C3: once loadProjects has completed, projects is in descending order of
\* sortDate.sortKey
C3_SortedBySortKey ==
  pc = "done" =>
    \A i, j \in 1..Len(projects) :
      i < j => projects[i].sortDate.sortKey >= projects[j].sortDate.sortKey

\* C4: parseYearMonth gives 202408 for "August 2024" and for "2024-08",
\* 202400 for "2024" and 0 for "Unknown Date"; a month name with a year and
\* a year-month naming the same year y and month m both give y*100 + m, and
\* a bare year y gives y*100
C4_SortKeys ==
  parseResult # NotParsed =>
    /\ parseInput = Str(DateAugust2024) => parseResult.sortKey = 202408
    /\ parseInput = Str(<<"2","0","2","4","-","0","8">>)
         => parseResult.sortKey = 202408
    /\ parseInput = Str(Date2024) => parseResult.sortKey = 202400
    /\ parseInput = Str(UnknownDate) => parseResult.sortKey = 0
    /\ \A y \in ParseYears, m \in 1..12 :
         /\ \A short \in BOOLEAN, capital \in BOOLEAN :
              parseInput = MonthYearInput(m, short, capital, y)
                => parseResult.sortKey = y * 100 + m
         /\ \A sep \in {"-", "/"}, padded \in BOOLEAN :
              parseInput = YearMonthInput(y, m, sep, padded)
                => parseResult.sortKey = y * 100 + m
    /\ \A y \in ParseYears :
         parseInput = YearInput(y) => parseResult.sortKey = y * 100

\* "Jul 1999" has been parsed
C4_Witness ==
  /\ parseInput = MonthYearInput(7, TRUE, TRUE, 1999)
  /\ parseResult # NotParsed
  /\ parseResult.sortKey = 199907

\* C5: a call of filterProjects with both filters 'all' leaves in
\* filteredProjects the elements of projects, in the same order
C5_AllAllKeepsList ==
  [][(FilterStep /\ currentCategory' = "all" /\ currentType' = "all")
       => filteredProjects' = projects']_vars

\* both filters are 'all' and filteredProjects holds the projects of a load
\* that failed after it had assigned projects: only filterProjects can have
\* put them there
C5_Witness ==
  /\ pc = "failed"
  /\ currentCategory = "all"
  /\ currentType = "all"
  /\ Len(projects) > 0
  /\ filteredProjects = projects

\* C6: a document whose 'projects' is an array always loads: loadProjects
\* ends with every entry in projects and without the error panel
C6_ArrayDocumentLoads ==
  IsProjectsArray(data) =>
    /\ pc = "done"
    /\ Len(projects) = Len(data.projects.items)

\* C7: a failure of loadProjects shows the error panel with its reload
\* button, and no step starts a second fetch on the page
C7_FailureShowsErrorOnce ==
  [][/\ (pc # "failed" /\ pc' = "failed")
          => /\ projectsContainer'.kind = "error"
             /\ projectsContainer'.button = "reload"
     /\ fetches' = 1]_vars

\* the document had no 'projects' array, and the error panel is shown
C7_Witness ==
  /\ pc = "failed"
  /\ data = [t |-> "object", projects |-> Undefined]
  /\ projectsContainer.kind = "error"
  /\ projectsContainer.button = "reload"
  /\ fetches = 1

\* C8: when the thumbnail of a card fails to load, that card shows its
\* fallback, and no other card and no application state changes
C8_ErrorShowsFallbackOnly ==
  [][\A i \in 1..MaxProjects :
       ThumbnailError(i) =>
         /\ Cards'[i].fallback = "shown"
         /\ \A j \in 1..Len(Cards) : j # i => Cards'[j] = Cards[j]
         /\ UNCHANGED <<projects, filteredProjects, currentCategory,
                        currentType, currentProject>>]_vars

\* C9: with no timer pending, the modal is displayed, active and the page
\* scroll locked exactly when a project is open
C9_ModalShownIffOpen ==
  timers = <<>> =>
    ((modalDisplay = "block" /\ modalActive /\ bodyOverflow = "hidden")
       <=> currentProject # Null)

\* the rectangle meets the viewport
Intersects(rect) ==
  /\ rect.top < Window.innerHeight
  /\ rect.bottom > 0
  /\ rect.left < Window.innerWidth
  /\ rect.right > 0

\* C10: after every render and every scroll, no lazy element that still
\* carries data-src meets the viewport
C10_VisibleLazyActivated ==
  \A i \in 1..Len(Cards) :
    Cards[i].el.dataSrc
      => ~Intersects(BoundingClientRect(Cards[i].index, scrollY))

\* the input of parseYearMonth is a string that is neither empty nor
\* 'Unknown Date', in lower case
ParsedText ==
  IF parseInput.t = "string" /\ Truthy(parseInput) /\ parseInput # Str(UnknownDate)
    THEN ToLowerCase(parseInput.s)
    ELSE <<>>

\* C11: whenever parseYearMonth recognises a date in its input (month name
\* and year, year-month, or bare year), the record it returns has
\* sortKey = year*100 + month
C11_SortKeyFromFields ==
  (parseResult # NotParsed /\ YearMatch(ParsedText).found) =>
    parseResult.sortKey = parseResult.year * 100 + parseResult.month

\* the two dates of "2023-12 to Jan 2024"
DashThenMonthName ==
  Str(<<"2","0","2","3","-","1","2"," ","t","o"," ","J","a","n"," ","2","0","2","4">>)

\* the two dates of "1999 / 2024-08"
YearThenDash ==
  Str(<<"1","9","9","9"," ","/"," ","2","0","2","4","-","0","8">>)

\* C12: parseYearMonth never throws on a string or a missing value; a month
\* name with its year decides the result wherever it stands, otherwise a
\* year-month does, otherwise a bare year does, and an input with none of
\* them, an empty or missing one and 'Unknown Date' give year 2000 with
\* sortKey 0
C12_FormatPriority ==
  (parseResult # NotParsed /\ parseInput.t \in {"string", "undefined"}) =>
    /\ ~parseResult.threw
    /\ LET s == ParsedText
       IN  IF MonthYearMatch(s).found
             THEN /\ parseResult.year = ParseInt(MonthYearMatch(s).g2)
                  /\ parseResult.month \in 1..12
                  /\ MonthName(parseResult.month, FALSE) =
                       MonthAlternatives[MonthYearMatch(s).alt]
                     \/ MonthName(parseResult.month, TRUE) =
                       MonthAlternatives[MonthYearMatch(s).alt]
                  /\ parseResult.sortKey =
                       parseResult.year * 100 + parseResult.month
           ELSE IF DashMatch(s).found
             THEN /\ parseResult.year = ParseInt(DashMatch(s).g1)
                  /\ parseResult.month = ParseInt(DashMatch(s).g2)
                  /\ parseResult.sortKey =
                       parseResult.year * 100 + parseResult.month
           ELSE IF YearMatch(s).found
             THEN /\ parseResult.year = ParseInt(YearMatch(s).g1)
                  /\ parseResult.sortKey = parseResult.year * 100
           ELSE /\ parseResult.year = 2000
                /\ parseResult.sortKey = 0
    /\ parseInput = DashThenMonthName => parseResult.sortKey = 202401
    /\ parseInput = YearThenDash => parseResult.sortKey = 202408

\* "2023-12 to Jan 2024" has been parsed as January 2024
C12_Witness ==
  /\ parseInput = DashThenMonthName
  /\ parseResult # NotParsed
  /\ parseResult.year = 2024
  /\ parseResult.month = 1

\* the thumbnail element of the card no longer carries data-src: it was
\* created with its src, or loadImage or loadIframe has activated it
Activated(card) == card.el.kind \in {"img", "iframe"}

\* C13: a scroll event leaves every activated element as it is, wherever
\* the viewport goes: it is neither returned to its lazy state nor given
\* its src a second time
C13_ActivationOneWay ==
  [][(\E y \in 0..MaxScroll : Scroll(y)) =>
       \A i \in 1..Len(Cards) :
         Activated(Cards[i]) => Cards'[i] = Cards[i]]_vars

\* an iframe that loadIframe put in place of its placeholder has been
\* scrolled out of the viewport, and is still the iframe
C13_Witness ==
  \E i \in 1..Len(Cards) :
    /\ Cards[i].el.kind = "iframe"
    /\ ~Cards[i].el.dataSrc
    /\ scrollListener
    /\ ~isInViewport(BoundingClientRect(Cards[i].index, scrollY))

\* C14: the filters start as 'all' and 'all'; a category click sets
\* currentCategory and leaves currentType as it was, a type click sets
\* currentType and leaves currentCategory as it was, and neither changes
\* projects, currentProject or currentMediaIndex
C14_FiltersIndependent ==
  /\ currentCategory = "all" /\ currentType = "all"
  /\ [][/\ \A category \in FilterButtons :
             CategoryClick(category) =>
               /\ currentCategory' = category
               /\ UNCHANGED <<currentType, projects, currentProject,
                              currentMediaIndex>>
        /\ \A type \in TypeButtons :
             TypeClick(type) =>
               /\ currentType' = type
               /\ UNCHANGED <<currentCategory, projects, currentProject,
                              currentMediaIndex>>]_vars

\* a type was chosen under one category and is still set under another,
\* while a project is open
C14_Witness ==
  /\ currentCategory = "video"
  /\ currentType = "Poster"
  /\ \E i \in 1..Len(projects) : projects[i].category = "graphic"
  /\ currentProject # Null

\* C15: whenever the type-filter navigation is hidden under category 'all',
\* currentType is 'all' and the list shown is the full project list
C15_HiddenTypeFilterIsAll ==
  (currentCategory = "all" /\ typeFilterNav = "none") =>
    /\ currentType = "all"
    /\ pc = "done" => filteredProjects = projects

\* C16: while a project is open, the 'next' control is disabled exactly
\* when nextMedia would leave currentMediaIndex as it is, and the 'prev'
\* control exactly when prevMedia would
C16_ControlsMatchNavigation ==
  currentProject # Null =>
    /\ mediaNextDisabled <=>
         NextIndex(currentProject, currentMediaIndex) = currentMediaIndex
    /\ mediaPrevDisabled <=> PrevIndex(currentMediaIndex) = currentMediaIndex

\* C17: from the failure of loadProjects until the page is reloaded, the
\* projects container shows the error panel
C17_ErrorPanelStays ==
  pc = "failed" => projectsContainer.kind = "error"

=============================================================================
